---- MODULE Spec2Model ----
(***************************************************************************)
(* A model of apns.py: the APNs facade, the APNsConnection life cycle on   *)
(* the tornado IOLoop, the Payload size check, the notification framer of  *)
(* GatewayConnection and the record parser of FeedbackConnection.          *)
(***************************************************************************)
EXTENDS Integers, Sequences, FiniteSets, TLC

VARIABLES
    conn,       \* one APNsConnection and the sockets, streams and timers it made
    nConnect,   \* connect() calls made so far; call k passes callback k
    nIO,        \* read()/write()/send calls made so far; call j passes callback j
    timedOut,   \* history: timer id -> state seen when it fired on a pending attempt
    completed,  \* history: the attempts whose stream finished connecting
    built,      \* the last Payload(...) call: its arguments and its result
    args,       \* the notification the caller sends: identifier, expiry, token, payload
    sends,      \* history: the send calls made on the gateway client
    fb,         \* FeedbackConnection.items(): the generator and the server's stream
    apns,       \* one APNs facade object
    heap,       \* the client objects constructed so far; an object is its index
    returned,   \* history: what each accessor use returned
    rx          \* the gateway's inbound side: frames, the stream's read slot

connVars == <<conn, nConnect, nIO, timedOut, completed>>

payloadVars == <<built>>

gatewayVars == <<args, sends>>

feedbackVars == <<fb>>

facadeVars == <<apns, heap, returned>>

receiveVars == <<rx>>

vars == <<connVars, payloadVars, gatewayVars, feedbackVars, facadeVars,
         receiveVars>>

(***************************************************************************)
(* Bounds of the model.                                                    *)
(***************************************************************************)
MaxConnects == 2
MaxIO == 2

\* Python's None for the handle-valued fields; sockets, streams and timeouts
\* are numbered from 1 by the connect() call that created them.
None == 0

TIME_OUT == 20

(***************************************************************************)
(* Bytes and text.  A byte is a number in 0..255; a text is a sequence of  *)
(* characters, each a one-character string ("eacute", "euro" and "grave"   *)
(* stand for the code points U+00E9, U+20AC and U+0060).                   *)
(***************************************************************************)
\* The concatenation of a sequence of sequences (by halves, to keep the
\* evaluation shallow).
RECURSIVE Flatten(_)
Flatten(ss) ==
    IF Len(ss) = 0 THEN <<>>
    ELSE IF Len(ss) = 1 THEN ss[1]
    ELSE Flatten(SubSeq(ss, 1, Len(ss) \div 2))
         \o Flatten(SubSeq(ss, Len(ss) \div 2 + 1, Len(ss)))

Rep(c, n) == [i \in 1..n |-> c]

\* The printable ASCII characters in code order, from the space (32) on.
Printable ==
    << " ", "!", "\"", "#", "$", "%", "&", "'", "(", ")", "*", "+", ",", "-",
       ".", "/", "0", "1", "2", "3", "4", "5", "6", "7", "8", "9", ":", ";",
       "<", "=", ">", "?", "@", "A", "B", "C", "D", "E", "F", "G", "H", "I",
       "J", "K", "L", "M", "N", "O", "P", "Q", "R", "S", "T", "U", "V", "W",
       "X", "Y", "Z", "[", "\\", "]", "^", "_", "grave", "a", "b", "c", "d", "e",
       "f", "g", "h", "i", "j", "k", "l", "m", "n", "o", "p", "q", "r", "s",
       "t", "u", "v", "w", "x", "y", "z", "{", "|", "}", "~" >>

Ord(c) == 31 + CHOOSE i \in 1..Len(Printable) : Printable[i] = c

\* unicode.encode('utf-8') of one character
Utf8Char(c) ==
    CASE c = "eacute" -> <<195, 169>>
      [] c = "euro"   -> <<226, 130, 172>>
      [] c = "\n"     -> <<10>>
      [] OTHER        -> <<Ord(c)>>

Utf8(text) == Flatten([i \in 1..Len(text) |-> Utf8Char(text[i])])

\* str(int)
RECURSIVE Decimal(_)
Decimal(n) ==
    IF n < 0 THEN <<"-">> \o Decimal(0 - n)
    ELSE IF n < 10 THEN <<Printable[17 + n]>>
    ELSE Decimal(n \div 10) \o <<Printable[17 + (n % 10)]>>

(***************************************************************************)
(* APNs: the big-endian codec (struct.pack / struct.unpack).               *)
(***************************************************************************)
\* A number that may need 32 bits is held as two 16-bit halves,
\* hi * 65536 + lo with lo in 0..65535, so that the whole range of '>I'
\* stays within the model checker's integers.
UInt(hi, lo) == [hi |-> hi, lo |-> lo]

\* struct.pack raises struct.error for a number the format cannot hold.
FitsUShort(num) == num \in 0..65535

FitsUInt(num) == num.hi \in 0..65535 /\ num.lo \in 0..65535

packed_ushort_little_endian(num) == <<num % 256, num \div 256>>

packed_ushort_big_endian(num) == <<num \div 256, num % 256>>

unpacked_ushort_big_endian(bytes) == bytes[1] * 256 + bytes[2]

packed_uint_big_endian(num) ==
    <<num.hi \div 256, num.hi % 256, num.lo \div 256, num.lo % 256>>

unpacked_uint_big_endian(bytes) ==
    UInt(bytes[1] * 256 + bytes[2], bytes[3] * 256 + bytes[4])

(***************************************************************************)
(* binascii                                                                *)
(***************************************************************************)
HexDigits == << "0", "1", "2", "3", "4", "5", "6", "7", "8", "9",
                "a", "b", "c", "d", "e", "f" >>

UpperHexDigits == << "0", "1", "2", "3", "4", "5", "6", "7", "8", "9",
                     "A", "B", "C", "D", "E", "F" >>

IsHexDigit(c) == \E i \in 1..16 : HexDigits[i] = c \/ UpperHexDigits[i] = c

HexValue(c) ==
    (CHOOSE i \in 1..16 : HexDigits[i] = c \/ UpperHexDigits[i] = c) - 1

a2b_hex_raises_nonhex_only(hexstr) ==
    \E i \in 1..Len(hexstr) : ~IsHexDigit(hexstr[i])

\* a2b_hex raises TypeError for an odd-length string and for a character
\* that is no hexadecimal digit.
a2b_hex_raises(hexstr) ==
    \/ Len(hexstr) % 2 = 1
    \/ \E i \in 1..Len(hexstr) : ~IsHexDigit(hexstr[i])

a2b_hex(hexstr) ==
    [i \in 1..(Len(hexstr) \div 2) |->
        16 * HexValue(hexstr[2 * i - 1]) + HexValue(hexstr[2 * i])]

b2a_hex(bytes) ==
    Flatten([i \in 1..Len(bytes) |->
        <<HexDigits[(bytes[i] \div 16) + 1], HexDigits[(bytes[i] % 16) + 1]>>])

(***************************************************************************)
(* json.dumps(..., separators=(',',':'), ensure_ascii=False)               *)
(*     .encode('utf-8')                                                    *)
(***************************************************************************)
\* One character inside a JSON string: the quote, the backslash and the
\* newline are escaped, everything else is emitted literally.
JsonChar(c) ==
    CASE c = "\"" -> <<92, 34>>
      [] c = "\\" -> <<92, 92>>
      [] c = "\n" -> <<92, 110>>
      [] OTHER    -> Utf8Char(c)

JsonString(text) ==
    <<34>> \o Flatten([i \in 1..Len(text) |-> JsonChar(text[i])]) \o <<34>>

JsonInt(n) == Utf8(Decimal(n))

RECURSIVE JoinComma(_)
JoinComma(items) ==
    IF items = <<>> THEN <<>>
    ELSE IF Len(items) = 1 THEN items[1]
    ELSE items[1] \o <<44>> \o JoinComma(Tail(items))

JsonArray(items) == <<91>> \o JoinComma(items) \o <<93>>

\* A dict as a sequence of <<key, serialized value>>; the members are written
\* in this order (the length does not depend on the order).
JsonObject(members) ==
    <<123>>
    \o JoinComma([i \in 1..Len(members) |->
                     JsonString(members[i][1]) \o <<58>> \o members[i][2]])
    \o <<125>>

\* d[key] = value
DictSet(d, key, value) ==
    IF \E i \in 1..Len(d) : d[i][1] = key
    THEN [i \in 1..Len(d) |-> IF d[i][1] = key THEN <<key, value>> ELSE d[i]]
    ELSE Append(d, <<key, value>>)

RECURSIVE DictUpdate(_, _)
DictUpdate(d, other) ==
    IF other = <<>> THEN d
    ELSE DictUpdate(DictSet(d, Head(other)[1], Head(other)[2]), Tail(other))

(***************************************************************************)
(* PayloadAlert and Payload.  An absent (None) or empty text is <<>>, an   *)
(* absent badge is NoBadge; an alert is NoAlert, a Text or a PayloadAlert. *)
(***************************************************************************)
MAX_PAYLOAD_LENGTH == 256

NoBadge == -1

\* The dictionary keys, as texts.
Key_aps == <<"a", "p", "s">>

Key_alert == <<"a", "l", "e", "r", "t">>

Key_sound == <<"s", "o", "u", "n", "d">>

Key_badge == <<"b", "a", "d", "g", "e">>

Key_body == <<"b", "o", "d", "y">>

Key_action_loc_key == <<"a", "c", "t", "i", "o", "n", "-", "l", "o", "c", "-", "k", "e", "y">>

Key_loc_key == <<"l", "o", "c", "-", "k", "e", "y">>

Key_loc_args == <<"l", "o", "c", "-", "a", "r", "g", "s">>

Key_launch_image == <<"l", "a", "u", "n", "c", "h", "-", "i", "m", "a", "g", "e">>

NoAlert == [kind |-> "None"]

Text(text) == [kind |-> "str", text |-> text]

PayloadAlert(body, action_loc_key, loc_key, loc_args, launch_image) ==
    [ kind |-> "PayloadAlert",
      body |-> body, action_loc_key |-> action_loc_key, loc_key |-> loc_key,
      loc_args |-> loc_args, launch_image |-> launch_image ]

\* isinstance(alert, PayloadAlert)
IsPayloadAlert(alert) == alert.kind = "PayloadAlert"

\* bool(alert): None and the empty string are false, any object is true.
Truthy(alert) ==
    \/ alert.kind = "PayloadAlert"
    \/ alert.kind = "str" /\ alert.text # <<>>

PayloadAlert_dict(self) ==
    LET d0 == << <<Key_body, JsonString(self.body)>> >>
        d1 == IF self.action_loc_key # <<>>
              THEN DictSet(d0, Key_action_loc_key, JsonString(self.action_loc_key))
              ELSE d0
        d2 == IF self.loc_key # <<>>
              THEN DictSet(d1, Key_loc_key, JsonString(self.loc_key))
              ELSE d1
        d3 == IF self.loc_args # <<>>
              THEN DictSet(d2, Key_loc_args,
                       JsonArray([i \in 1..Len(self.loc_args) |->
                                     JsonString(self.loc_args[i])]))
              ELSE d2
    IN  IF self.launch_image # <<>>
        THEN DictSet(d3, Key_launch_image, JsonString(self.launch_image))
        ELSE d3

Payload_dict(self) ==
    LET d0 == <<>>
        d1 == IF Truthy(self.alert)
              THEN IF IsPayloadAlert(self.alert)
                   THEN DictSet(d0, Key_alert, JsonObject(PayloadAlert_dict(self.alert)))
                   ELSE DictSet(d0, Key_alert, JsonString(self.alert.text))
              ELSE d0
        d2 == IF self.sound # <<>>
              THEN DictSet(d1, Key_sound, JsonString(self.sound))
              ELSE d1
        d3 == IF self.badge # NoBadge
              THEN DictSet(d2, Key_badge, JsonInt(self.badge))
              ELSE d2
    IN  DictUpdate(<< <<Key_aps, JsonObject(d3)>> >>,
                   [i \in 1..Len(self.custom) |->
                       <<self.custom[i][1], JsonString(self.custom[i][2])>>])

json(self) == JsonObject(Payload_dict(self))

_check_size_off_by_one(self) == Len(json(self)) >= MAX_PAYLOAD_LENGTH

\* TRUE when _check_size raises PayloadTooLargeError.
_check_size(self) == Len(json(self)) > MAX_PAYLOAD_LENGTH

\* Payload.__init__: the object, or the error it raises.
Payload(alert, badge, sound, custom) ==
    LET self == [ alert |-> alert, badge |-> badge, sound |-> sound,
                  custom |-> custom ]
    IN  IF _check_size(self)
        THEN [raises |-> "PayloadTooLargeError"]
        ELSE [raises |-> "", self |-> self]

(***************************************************************************)
(* APNsConnection                                                          *)
(***************************************************************************)

\* APNsConnection.__init__ : every field empty, nothing registered anywhere.
NewConnection ==
    [ alive |-> FALSE, connecting |-> FALSE, connect_timeout |-> None,
      socket |-> None, stream |-> None,
      closed   |-> {},      \* sockets on which close() has been called
      timeouts |-> {},      \* timeouts pending in the IOLoop
      deadline |-> <<>>,    \* timeout id -> its delay, as passed to add_timeout
      connects |-> {},      \* streams whose connect callback is still registered
      ready    |-> <<>>,    \* onReady invocations, with the flags each one saw
      ops      |-> <<>>,    \* reads and writes accepted by a stream
      raised   |-> <<>>,    \* errors raised to callers, with the state they saw
      invoked  |-> {} ]     \* I/O calls whose continuation has been invoked

is_alive(w) == w.alive

is_connecting(w) == w.connecting

\* raise: the caller sees the connection as it is at this point.
Raise(w, call, err) ==
    [w EXCEPT !.raised = Append(@, [ call |-> call, err |-> err,
                                      alive |-> w.alive, socket |-> w.socket,
                                      closed |-> w.closed ])]

\* s.close(): closing a closed socket is a no-op; None has no close().
SocketClose(w, s) ==
    IF s = None
    THEN Raise(w, None, "AttributeError")
    ELSE [w EXCEPT !.closed = @ \cup {s}]

_disconnect_noguard(w) == SocketClose([w EXCEPT !.alive = FALSE], w.socket)

_disconnect(w) ==
    LET w1 == [w EXCEPT !.alive = FALSE]
    IN  IF w1.socket # None THEN SocketClose(w1, w1.socket) ELSE w1

\* The caller's onReady: records what the connection looked like when it ran.
callback(w, cb) ==
    [w EXCEPT !.ready = Append(@, [ cb |-> cb, alive |-> w.alive,
                                     connecting |-> w.connecting,
                                     timeouts |-> w.timeouts ])]

\* IOLoop.remove_timeout(handle)
remove_timeout(w, handle) == [w EXCEPT !.timeouts = @ \ {handle}]

connect_unguarded(w, cb) ==
    [w EXCEPT !.connecting = TRUE,
              !.connect_timeout = cb,
              !.timeouts = @ \cup {cb},
              !.deadline = Append(@, TIME_OUT),
              !.socket = cb,
              !.stream = cb,
              !.connects = @ \cup {cb}]

connect(w, cb) ==
    IF ~w.connecting
    THEN [w EXCEPT !.connecting = TRUE,
                   !.connect_timeout = cb,
                   !.timeouts = @ \cup {cb},
                   !.deadline = Append(@, TIME_OUT),
                   !.socket = cb,
                   !.stream = cb,
                   !.connects = @ \cup {cb}]
    ELSE w

_connecting_timeout_callback(w) ==
    IF ~w.alive
    THEN _disconnect([w EXCEPT !.connecting = FALSE])
    ELSE w

_on_connected_callback_first(w, cb) ==
    LET w0 == callback(w, cb)
        w1 == remove_timeout(w0, w0.connect_timeout)
        w2 == [w1 EXCEPT !.alive = TRUE]
    IN  [w2 EXCEPT !.connecting = FALSE]

_on_connected(w, cb) ==
    LET w1 == remove_timeout(w, w.connect_timeout)
        w2 == [w1 EXCEPT !.alive = TRUE]
        w3 == [w2 EXCEPT !.connecting = FALSE]
    IN  callback(w3, cb)

\* self._stream.<op>(arg, callback): AttributeError when _stream is None,
\* IOError when the stream refuses the operation (ioerr), else accepted.
StreamOp(w, call, kind, arg, ioerr) ==
    IF w.stream = None THEN "AttributeError"
    ELSE IF ioerr THEN "IOError"
    ELSE "ok"

Accept(w, call, kind, arg) ==
    [w EXCEPT !.ops = Append(@, [ call |-> call, kind |-> kind,
                                   stream |-> w.stream, arg |-> arg ])]

read_raise_first(w, call, n, ioerr) ==
    IF StreamOp(w, call, "read", n, ioerr) = "ok"
    THEN Accept(w, call, "read", n)
    ELSE _disconnect(Raise(w, call, "ConnectionError"))

read(w, call, n, ioerr) ==
    IF StreamOp(w, call, "read", n, ioerr) = "ok"
    THEN Accept(w, call, "read", n)
    ELSE Raise(_disconnect(w), call, "ConnectionError")

write(w, call, string, ioerr) ==
    IF StreamOp(w, call, "write", string, ioerr) = "ok"
    THEN Accept(w, call, "write", string)
    ELSE Raise(_disconnect(w), call, "ConnectionError")

(***************************************************************************)
(* GatewayConnection                                                       *)
(***************************************************************************)
\* The frame of send_notification / send_notification_json from the token
\* and the serialized payload, or the error raised on the way.
Notification(identifier, expiry, token_hex, payload_json) ==
    IF a2b_hex_raises(token_hex)
    THEN [raises |-> "TokenLengthOddError", notification |-> <<>>]
    ELSE LET token_bin == a2b_hex(token_hex)
         IN  IF \/ ~FitsUShort(Len(token_bin))
                \/ ~FitsUInt(identifier)
                \/ ~FitsUInt(expiry)
                \/ ~FitsUShort(Len(payload_json))
             THEN [raises |-> "struct.error", notification |-> <<>>]
             ELSE LET token_length_bin == packed_ushort_big_endian(Len(token_bin))
                      identifier_bin == packed_uint_big_endian(identifier)
                      expiry_bin == packed_uint_big_endian(expiry)
                      payload_length_bin ==
                          packed_ushort_big_endian(Len(payload_json))
                  IN  [ raises |-> "",
                        notification |->
                            <<1>> \o identifier_bin \o expiry_bin
                            \o token_length_bin \o token_bin
                            \o payload_length_bin \o payload_json ]

_get_notification(identifier, expiry, token_hex, payload) ==
    Notification(identifier, expiry, token_hex, json(payload))

send_notification(w, call, identifier, expiry, token_hex, payload, ioerr) ==
    LET r == _get_notification(identifier, expiry, token_hex, payload)
    IN  IF r.raises # ""
        THEN Raise(w, call, r.raises)
        ELSE write(w, call, r.notification, ioerr)

send_notification_json(w, call, identifier, expiry, token_hex, payload, ioerr) ==
    LET r == Notification(identifier, expiry, token_hex, payload)
    IN  IF r.raises # ""
        THEN Raise(w, call, r.raises)
        ELSE write(w, call, r.notification, ioerr)

\* buff[from:], 0-based
SliceFrom(buff, from) == SubSeq(buff, from + 1, Len(buff))

\* buff[from:to], 0-based, to exclusive
Slice(buff, from, to) == SubSeq(buff, from + 1, to)

\* The inbound side of the gateway's stream.  An IOStream holds one read
\* callback: read_bytes asserts that none is pending ("Already reading"),
\* and where assert statements are compiled out it replaces the pending one.
NewReceive(inbound, asserts) ==
    [ sent    |-> inbound,  \* every byte the gateway sends
      inbound |-> inbound,  \* those of them that are not yet read
      asserts |-> asserts,  \* the interpreter executes assert statements
      slot    |-> <<>>,     \* stream -> the call whose read it is holding
      calls   |-> <<>>,     \* receive_response calls, in call order
      results |-> <<>> ]    \* callback(status, seq) invocations, in order

\* receive_response up to its yield: gen.Task(self.read, 6).
receive_response(w, r, call, ioerr) ==
    LET r1 == [r EXCEPT !.calls = Append(@, call)]
    IN  IF w.stream # None /\ w.stream \in DOMAIN r.slot /\ r.asserts
        THEN [ conn |-> Raise(w, call, "AssertionError"), rx |-> r1 ]
        ELSE IF StreamOp(w, call, "read", 6, ioerr) = "ok"
        THEN [ conn |-> read(w, call, 6, ioerr),
               rx |-> [r1 EXCEPT !.slot = (w.stream :> call) @@ @] ]
        ELSE [ conn |-> read(w, call, 6, ioerr), rx |-> r1 ]

\* receive_response from its yield on: data is what the read delivered.
receive_response_resume(r, call, data) ==
    LET command == data[1]
        status == data[2]
        seq == unpacked_uint_big_endian(Slice(data, 2, 6))
    IN  [r EXCEPT !.results = Append(@, [ call |-> call, status |-> status,
                                           identifier |-> seq ])]

(***************************************************************************)
(* FeedbackConnection                                                      *)
(***************************************************************************)
BUF_SIZE == 4096

SECONDS_PER_DAY == 86400

\* datetime.utcfromtimestamp(seconds): the day counted from 1970-01-01 and
\* the second of that day.  (86400 = 128 * 675 and 65536 = 128 * 512.)
utcfromtimestamp(t) ==
    LET units == (t.hi * 512) + (t.lo \div 128)
    IN  [ day |-> units \div (SECONDS_PER_DAY \div 128),
          second |-> ((units % (SECONDS_PER_DAY \div 128)) * 128) + (t.lo % 128) ]

\* items() before its first step; stream is what the server has yet to send.
NewItems(records, stream) ==
    [ records |-> records, stream |-> stream,
      pc |-> "fetch",     \* fetch: at the for statement; parse: at the while
                          \* test; yielded: suspended at the yield; done
      buff |-> <<>>,
      data |-> <<>>,      \* _chunks: the chunk it yielded last
      started |-> FALSE,  \* _chunks has been entered
      reads |-> 0,        \* chunk reads issued
      read |-> <<>>,      \* every byte read so far
      emptyRead |-> FALSE,\* a chunk read has returned no bytes
      afterEmpty |-> 0,   \* reads issued and pairs yielded after that
      yielded |-> <<>> ]

_chunks_never_exhausted(f) == FALSE

\* _chunks, resumed after its yield: "if not data: break".
_chunks_exhausted(f) == f.started /\ f.data = <<>>

\* The body of the for loop up to the while statement, for one chunk.
items_chunk(f, chunk) ==
    LET buff == f.buff \o chunk
        f1 == [f EXCEPT !.buff = buff]
    IN  IF buff = <<>> THEN [f1 EXCEPT !.pc = "done"]
        ELSE IF Len(buff) < 6 THEN [f1 EXCEPT !.pc = "done"]
        ELSE [f1 EXCEPT !.pc = "parse"]

\* One test of the while loop: yield a pair, or leave the loop.
items_while(f) ==
    IF Len(f.buff) > 6
    THEN LET token_length == unpacked_ushort_big_endian(Slice(f.buff, 4, 6))
             bytes_to_read == 6 + token_length
         IN  IF Len(f.buff) >= bytes_to_read
             THEN LET fail_time_unix ==
                          unpacked_uint_big_endian(Slice(f.buff, 0, 4))
                      fail_time == utcfromtimestamp(fail_time_unix)
                      token == b2a_hex(Slice(f.buff, 6, bytes_to_read))
                  IN  [f EXCEPT !.pc = "yielded",
                                !.yielded = Append(@, <<token, fail_time>>),
                                !.afterEmpty = IF f.emptyRead THEN @ + 1 ELSE @]
             ELSE [f EXCEPT !.pc = "fetch"]
    ELSE [f EXCEPT !.pc = "fetch"]

\* Resumed after the yield: remove the record from the buffer.
items_resume(f) ==
    LET token_length == unpacked_ushort_big_endian(Slice(f.buff, 4, 6))
        bytes_to_read == 6 + token_length
    IN  [f EXCEPT !.buff = SliceFrom(f.buff, bytes_to_read), !.pc = "parse"]

\* _chunks: data = self.read(BUF_SIZE).  read is declared read(self, n,
\* callback) and callback has no default, so the call raises TypeError
\* before the body of read, and its try statement, is entered.
_chunks_read(w, call) == Raise(w, call, "TypeError")

\* items() when the exception of its first fetch passes through it.
items_raised(f) == [f EXCEPT !.pc = "raised", !.started = TRUE]

(***************************************************************************)
(* APNs, the facade, and the constructors of its two clients.              *)
(***************************************************************************)
\* APNs.__init__
NewAPNs(use_sandbox, cert_file, key_file) ==
    [ use_sandbox |-> use_sandbox, cert_file |-> cert_file,
      key_file |-> key_file,
      _feedback_connection |-> None, _gateway_connection |-> None ]

\* APNsConnection.__init__ as run by a subclass constructor: the fields of
\* the connection, every one empty.
ConnectionFields(cert_file, key_file) ==
    [ cert_file |-> cert_file, key_file |-> key_file,
      alive |-> FALSE, connecting |-> FALSE, connect_timeout |-> None,
      socket |-> None, ssl |-> None, stream |-> None ]

FeedbackConnection(use_sandbox, cert_file, key_file) ==
    [ class |-> "FeedbackConnection",
      connection |-> ConnectionFields(cert_file, key_file),
      server |-> IF use_sandbox THEN "feedback.sandbox.push.apple.com"
                 ELSE "feedback.push.apple.com",
      port |-> 2196 ]

GatewayConnection(use_sandbox, cert_file, key_file) ==
    [ class |-> "GatewayConnection",
      connection |-> ConnectionFields(cert_file, key_file),
      server |-> IF use_sandbox THEN "gateway.sandbox.push.apple.com"
                 ELSE "gateway.push.apple.com",
      port |-> 2195 ]

\* An accessor's effect: the facade, the heap and the object it returns.
feedback_server(self, objects) ==
    IF self._feedback_connection = None
    THEN LET new == FeedbackConnection(self.use_sandbox, self.cert_file,
                                       self.key_file)
         IN  [ self |-> [self EXCEPT !._feedback_connection = Len(objects) + 1],
               heap |-> Append(objects, new),
               result |-> Len(objects) + 1 ]
    ELSE [ self |-> self, heap |-> objects,
           result |-> self._feedback_connection ]

gateway_server_not_memoized(self, objects) ==
    LET new == GatewayConnection(self.use_sandbox, self.cert_file, self.key_file)
    IN  [ self |-> [self EXCEPT !._gateway_connection = Len(objects) + 1],
          heap |-> Append(objects, new),
          result |-> Len(objects) + 1 ]

gateway_server(self, objects) ==
    IF self._gateway_connection = None
    THEN LET new == GatewayConnection(self.use_sandbox, self.cert_file,
                                      self.key_file)
         IN  [ self |-> [self EXCEPT !._gateway_connection = Len(objects) + 1],
               heap |-> Append(objects, new),
               result |-> Len(objects) + 1 ]
    ELSE [ self |-> self, heap |-> objects,
           result |-> self._gateway_connection ]

(***************************************************************************)
(* The connection driven by its caller and by the IOLoop.                  *)
(***************************************************************************)
PayloadIdle == built = <<>>

NoArgs == [identifier |-> UInt(0, 0), expiry |-> UInt(0, 0), token_hex |-> <<>>,
           payload |-> [alert |-> NoAlert, badge |-> NoBadge, sound |-> <<>>,
                        custom |-> <<>>]]

GatewayIdle == args = NoArgs /\ sends = <<>>

FeedbackIdle == fb = NewItems(<<>>, <<>>)

FacadeIdle ==
    /\ apns = NewAPNs(FALSE, "", "")
    /\ heap = <<>>
    /\ returned = <<>>

ReceiveIdle == rx = NewReceive(<<>>, TRUE)

ConnInit ==
    /\ conn = NewConnection
    /\ nConnect = 0
    /\ nIO = 0
    /\ timedOut = <<>>
    /\ completed = {}

\* The caller calls connect(callback).
Connect ==
    /\ nConnect < MaxConnects
    /\ nConnect' = nConnect + 1
    /\ conn' = connect(conn, nConnect + 1)
    /\ UNCHANGED <<nIO, timedOut, completed>>
    /\ UNCHANGED <<payloadVars, gatewayVars, feedbackVars, facadeVars, receiveVars>>

\* The stream of attempt k finishes connecting and calls the callback it was
\* given, functools.partial(self._on_connected, callback).  Nothing in the
\* class unregisters that callback, so it may run whatever happened since.
Connected ==
    \E k \in conn.connects :
        /\ conn' = _on_connected([conn EXCEPT !.connects = @ \ {k}], k)
        /\ completed' = completed \cup {k}
        /\ UNCHANGED <<nConnect, nIO, timedOut>>
        /\ UNCHANGED <<payloadVars, gatewayVars, feedbackVars, facadeVars, receiveVars>>

\* The IOLoop fires a pending timeout.
TimeoutFires ==
    \E t \in conn.timeouts :
        /\ conn' = _connecting_timeout_callback(remove_timeout(conn, t))
        /\ timedOut' = IF t \in conn.connects
                       THEN (t :> [ alive |-> conn'.alive,
                                    connecting |-> conn'.connecting,
                                    socket |-> conn'.socket,
                                    closed |-> conn'.closed ]) @@ timedOut
                       ELSE timedOut
        /\ UNCHANGED <<nConnect, nIO, completed>>
        /\ UNCHANGED <<payloadVars, gatewayVars, feedbackVars, facadeVars, receiveVars>>

Disconnect ==
    /\ conn' = _disconnect(conn)
    /\ UNCHANGED <<nConnect, nIO, timedOut, completed>>
    /\ UNCHANGED <<payloadVars, gatewayVars, feedbackVars, facadeVars, receiveVars>>

Read ==
    /\ nIO < MaxIO
    /\ nIO' = nIO + 1
    /\ \E n \in {6}, ioerr \in BOOLEAN :
           conn' = read(conn, nIO + 1, n, ioerr)
    /\ UNCHANGED <<nConnect, timedOut, completed>>
    /\ UNCHANGED <<payloadVars, gatewayVars, feedbackVars, facadeVars, receiveVars>>

Write ==
    /\ nIO < MaxIO
    /\ nIO' = nIO + 1
    /\ \E string \in {<<1>>}, ioerr \in BOOLEAN :
           conn' = write(conn, nIO + 1, string, ioerr)
    /\ UNCHANGED <<nConnect, timedOut, completed>>
    /\ UNCHANGED <<payloadVars, gatewayVars, feedbackVars, facadeVars, receiveVars>>

\* A stream completes an accepted operation and invokes its continuation.
Completes ==
    \E i \in 1..Len(conn.ops) :
        /\ conn.ops[i].call \notin conn.invoked
        /\ conn' = [conn EXCEPT !.invoked = @ \cup {conn.ops[i].call}]
        /\ UNCHANGED <<nConnect, nIO, timedOut, completed>>
        /\ UNCHANGED <<payloadVars, gatewayVars, feedbackVars, facadeVars, receiveVars>>

Next ==
    \/ Connect
    \/ Connected
    \/ TimeoutFires
    \/ Disconnect
    \/ Read
    \/ Write
    \/ Completes

Init ==
    ConnInit /\ PayloadIdle /\ GatewayIdle /\ FeedbackIdle /\ FacadeIdle /\ ReceiveIdle

Spec == Init /\ [][Next]_vars

\* The IOLoop runs: a pending timeout fires once its deadline has passed.
SpecTimers == Spec /\ WF_vars(TimeoutFires)
(***************************************************************************)
(* Payload construction on its own: Payload(alert, badge, sound, custom)   *)
(* called with arguments whose serializations straddle the limit.          *)
(***************************************************************************)
AlertLengths == {1, 199, 200, 201, 210, 217, 218, 219, 226, 227, 228, 235, 236, 237}

Alerts ==
    {NoAlert, Text(<<>>)}
    \cup {Text(Rep("x", n)) : n \in AlertLengths}
    \cup {Text(Rep("x", 233) \o <<"euro">>), Text(Rep("x", 234) \o <<"euro">>),
          Text(Rep("x", 234) \o <<"\"">>), Text(Rep("x", 235) \o <<"\"">>)}
    \cup {PayloadAlert(Rep("x", n), <<>>, <<"K">>, <<<<"a">>, <<"b">>>>, <<>>) :
             n \in {1, 192, 193}}

Badges == {NoBadge, 0, 10}

Sounds == {<<>>, <<"d", "e", "f", "a", "u", "l", "t">>}

Customs == {<<>>, << << <<"k">>, <<"v">> >> >>}

\* One Payload(...) call.
Build ==
    /\ built = <<>>
    /\ \E alert \in Alerts, badge \in Badges, sound \in Sounds, custom \in Customs :
           built' = << [ alert |-> alert, badge |-> badge, sound |-> sound,
                         custom |-> custom,
                         result |-> Payload(alert, badge, sound, custom) ] >>
    /\ UNCHANGED <<connVars, gatewayVars, feedbackVars, facadeVars, receiveVars>>

PayloadInit ==
    ConnInit /\ PayloadIdle /\ GatewayIdle /\ FeedbackIdle /\ FacadeIdle /\ ReceiveIdle

PayloadNext == Build

SpecPayload == PayloadInit /\ [][PayloadNext]_vars

(***************************************************************************)
(* The gateway client: its connection, and notifications sent on it.       *)
(***************************************************************************)
MaxGatewayConnects == 1
MaxSends == 1

Identifiers == {UInt(0, 1), UInt(258, 772), UInt(65535, 65280)}

Expiries == {UInt(0, 0), UInt(32768, 255)}

Tokens ==
    { <<>>, <<"a", "1", "b", "2", "c", "3", "d", "4">>, <<"F", "f">>,
      <<"f">>, <<"a", "1", "b">> }

\* Payload objects that were constructed: none of these is too large.
Payloads ==
    { [alert |-> Text(<<"h", "i">>), badge |-> NoBadge, sound |-> <<>>,
       custom |-> <<>>],
      [alert |-> NoAlert, badge |-> 3, sound |-> <<>>, custom |-> <<>>] }

\* What the object fields and the event loop hold: everything but the logs.
ConnState(w) ==
    [ alive |-> w.alive, connecting |-> w.connecting,
      connect_timeout |-> w.connect_timeout, socket |-> w.socket,
      stream |-> w.stream, closed |-> w.closed, timeouts |-> w.timeouts,
      connects |-> w.connects, ops |-> w.ops ]

SendRecord(fn, w) ==
    [ fn |-> fn, call |-> nIO + 1, token_hex |-> args.token_hex,
      before |-> ConnState(conn), after |-> ConnState(w) ]

GatewayConnect ==
    /\ nConnect < MaxGatewayConnects
    /\ Connect

SendNotification ==
    /\ nIO < MaxSends
    /\ nIO' = nIO + 1
    /\ \E ioerr \in BOOLEAN :
           conn' = send_notification(conn, nIO + 1, args.identifier, args.expiry,
                                     args.token_hex, args.payload, ioerr)
    /\ sends' = Append(sends, SendRecord("send_notification", conn'))
    /\ UNCHANGED <<nConnect, timedOut, completed, payloadVars, args, feedbackVars, facadeVars, receiveVars>>

SendNotificationJson ==
    /\ nIO < MaxSends
    /\ nIO' = nIO + 1
    /\ \E ioerr \in BOOLEAN :
           conn' = send_notification_json(conn, nIO + 1, args.identifier,
                                          args.expiry, args.token_hex,
                                          json(args.payload), ioerr)
    /\ sends' = Append(sends, SendRecord("send_notification_json", conn'))
    /\ UNCHANGED <<nConnect, timedOut, completed, payloadVars, args, feedbackVars, facadeVars, receiveVars>>

FrameArgs ==
    [ identifier : Identifiers, expiry : Expiries, token_hex : Tokens,
      payload : Payloads ]

\* One notification with an even-length token, and the same with odd ones.
GatewayArgs ==
    { a \in FrameArgs :
        /\ a.identifier = UInt(0, 1)
        /\ a.expiry = UInt(0, 0)
        /\ a.payload.alert = Text(<<"h", "i">>)
        /\ Len(a.token_hex) \in {1, 3, 8} }

GatewayInit ==
    /\ ConnInit
    /\ PayloadIdle
    /\ FeedbackIdle
    /\ FacadeIdle
    /\ ReceiveIdle
    /\ sends = <<>>
    /\ args \in GatewayArgs

GatewayNext ==
    \/ GatewayConnect
    \/ Connected
    \/ TimeoutFires
    \/ Disconnect
    \/ SendNotification
    \/ SendNotificationJson
    \/ Completes

SpecGateway == GatewayInit /\ [][GatewayNext]_vars

(***************************************************************************)
(* The framer: any of the sample notifications, sent on a connection that  *)
(* is being or has been connected.                                         *)
(***************************************************************************)
FrameInit ==
    /\ ConnInit
    /\ PayloadIdle
    /\ FeedbackIdle
    /\ FacadeIdle
    /\ ReceiveIdle
    /\ sends = <<>>
    /\ args \in FrameArgs

FrameNext ==
    \/ GatewayConnect
    \/ Connected
    \/ SendNotification
    \/ SendNotificationJson

SpecFrame == FrameInit /\ [][FrameNext]_vars

(***************************************************************************)
(* The feedback sequence: items() pulled to its end over a stream of       *)
(* records that the server sends and then closes.  Line 270 binds data to  *)
(* self.read(BUF_SIZE); here that is the next bytes of the stream, at most *)
(* BUF_SIZE of them, and no bytes once the server has closed.              *)
(***************************************************************************)
MaxRecords == 2

RecordKinds ==
    { [fail_time |-> UInt(0, 10), token |-> <<153>>],
      [fail_time |-> UInt(65535, 65535), token |-> <<>>],
      [fail_time |-> UInt(1, 20864), token |-> <<1, 171>>] }

\* fail_time(4 bytes) | token_length(2 bytes) | token
RecordBytes(r) ==
    <<r.fail_time.hi \div 256, r.fail_time.hi % 256,
      r.fail_time.lo \div 256, r.fail_time.lo % 256,
      Len(r.token) \div 256, Len(r.token) % 256>> \o r.token

StreamOf(records) == Flatten([i \in 1..Len(records) |-> RecordBytes(records[i])])

RecordLists == UNION {[1..n -> RecordKinds] : n \in 0..MaxRecords}

FeedbackInit ==
    /\ ConnInit
    /\ PayloadIdle
    /\ GatewayIdle
    /\ FacadeIdle
    /\ ReceiveIdle
    /\ \E records \in RecordLists : fb = NewItems(records, StreamOf(records))

\* The for statement asks _chunks for the next chunk: the generator ends, or
\* reads up to BUF_SIZE bytes and yields them to the loop body.
Fetch ==
    /\ fb.pc = "fetch"
    /\ IF _chunks_exhausted(fb)
       THEN fb' = [fb EXCEPT !.pc = "done"]
       ELSE \E n \in 0..Len(fb.stream) :
               /\ n <= BUF_SIZE
               /\ n = 0 <=> fb.stream = <<>>
               /\ LET data == SubSeq(fb.stream, 1, n)
                  IN  fb' = items_chunk(
                          [fb EXCEPT !.stream = SliceFrom(fb.stream, n),
                                     !.data = data,
                                     !.started = TRUE,
                                     !.reads = @ + 1,
                                     !.read = @ \o data,
                                     !.afterEmpty = IF fb.emptyRead THEN @ + 1 ELSE @,
                                     !.emptyRead = @ \/ data = <<>>],
                          data)
    /\ UNCHANGED <<connVars, payloadVars, gatewayVars, facadeVars, receiveVars>>

While ==
    /\ fb.pc = "parse"
    /\ fb' = items_while(fb)
    /\ UNCHANGED <<connVars, payloadVars, gatewayVars, facadeVars, receiveVars>>

\* The consumer asks for the next pair.
Resume ==
    /\ fb.pc = "yielded"
    /\ fb' = items_resume(fb)
    /\ UNCHANGED <<connVars, payloadVars, gatewayVars, facadeVars, receiveVars>>

FeedbackNext ==
    \/ Fetch
    \/ While
    \/ Resume

SpecFeedback == FeedbackInit /\ [][FeedbackNext]_vars

\* The consumer keeps pulling the sequence.
SpecFeedbackPulled == SpecFeedback /\ WF_vars(FeedbackNext)

(***************************************************************************)
(* Sending: Payload objects through send_notification, and payloads the    *)
(* caller serialized itself through send_notification_json.                *)
(***************************************************************************)
MaxSerializedSends == 2

SerializedLengths == {2, 236, 237}

\* JSON texts of 22, 256 and 257 bytes, as a caller may produce them.
SerializedPayloads ==
    { json([alert |-> Text(Rep("x", n)), badge |-> NoBadge, sound |-> <<>>,
            custom |-> <<>>]) : n \in SerializedLengths }

SendSerialized ==
    /\ nIO < MaxSerializedSends
    /\ nIO' = nIO + 1
    /\ \E payload \in SerializedPayloads, ioerr \in BOOLEAN :
           conn' = send_notification_json(conn, nIO + 1, args.identifier,
                                          args.expiry, args.token_hex,
                                          payload, ioerr)
    /\ sends' = Append(sends, SendRecord("send_notification_json", conn'))
    /\ UNCHANGED <<nConnect, timedOut, completed, payloadVars, args, feedbackVars, facadeVars, receiveVars>>

SendInit ==
    /\ ConnInit
    /\ PayloadIdle
    /\ FeedbackIdle
    /\ FacadeIdle
    /\ ReceiveIdle
    /\ sends = <<>>
    /\ args \in { a \in FrameArgs : /\ a.identifier = UInt(0, 1)
                                    /\ a.expiry = UInt(0, 0)
                                    /\ Len(a.token_hex) % 2 = 0 }

SendNext ==
    \/ GatewayConnect
    \/ Connected
    \/ SendNotification
    \/ SendSerialized

SpecSend == SendInit /\ [][SendNext]_vars

(***************************************************************************)
(* The error channel: receive_response calls on a gateway connection and   *)
(* the error-response frames the gateway sends.                            *)
(***************************************************************************)
MaxReceives == 3

MaxFrames == 2

ResponseFrames == { <<8, 8, 0, 0, 0, 1>>, <<8, 1, 1, 2, 255, 4>> }

InboundStreams ==
    UNION { [1..n -> ResponseFrames] : n \in 0..MaxFrames }

ReceiveInit ==
    /\ ConnInit
    /\ PayloadIdle
    /\ FeedbackIdle
    /\ apns = NewAPNs(FALSE, "", "")
    /\ heap = <<>>
    /\ returned = <<>>
    /\ sends = <<>>
    /\ args \in { a \in GatewayArgs : Len(a.token_hex) = 8 }
    /\ \E frames \in InboundStreams, asserts \in BOOLEAN :
           rx = NewReceive(Flatten(frames), asserts)

ReceiveResponse ==
    /\ nIO < MaxReceives
    /\ nIO' = nIO + 1
    /\ \E ioerr \in BOOLEAN :
           LET r == receive_response(conn, rx, nIO + 1, ioerr)
           IN  conn' = r.conn /\ rx' = r.rx
    /\ UNCHANGED <<nConnect, timedOut, completed>>
    /\ UNCHANGED <<payloadVars, gatewayVars, feedbackVars, facadeVars>>

\* Six bytes have arrived on a connected stream that holds a read: the
\* stream frees its slot and runs the continuation of that read.
Arrives ==
    /\ Len(rx.inbound) >= 6
    /\ \E stream \in DOMAIN rx.slot :
           /\ stream \in completed
           /\ stream \notin conn.closed
           /\ conn' = [conn EXCEPT !.invoked = @ \cup {rx.slot[stream]}]
           /\ rx' = receive_response_resume(
                        [rx EXCEPT !.slot = [t \in DOMAIN @ \ {stream} |-> @[t]],
                                   !.inbound = SliceFrom(@, 6)],
                        rx.slot[stream], Slice(rx.inbound, 0, 6))
    /\ UNCHANGED <<nConnect, nIO, timedOut, completed>>
    /\ UNCHANGED <<payloadVars, gatewayVars, feedbackVars, facadeVars>>

ReceiveNext ==
    \/ GatewayConnect
    \/ Connected
    \/ Disconnect
    \/ SendNotification
    \/ ReceiveResponse
    \/ Arrives

SpecReceive == ReceiveInit /\ [][ReceiveNext]_vars

(***************************************************************************)
(* The feedback sequence on its connection: the fetch as the code makes it.*)
(***************************************************************************)
MaxFetches == 1

\* The for statement of items() asks _chunks for a chunk, and _chunks calls
\* self.read(BUF_SIZE).
FetchOnConnection ==
    /\ fb.pc = "fetch"
    /\ nIO < MaxFetches
    /\ nIO' = nIO + 1
    /\ conn' = _chunks_read(conn, nIO + 1)
    /\ fb' = items_raised(fb)
    /\ UNCHANGED <<nConnect, timedOut, completed>>
    /\ UNCHANGED <<payloadVars, gatewayVars, facadeVars, receiveVars>>

FetchNext ==
    \/ Connect
    \/ Connected
    \/ TimeoutFires
    \/ Disconnect
    \/ FetchOnConnection

SpecFetch == FeedbackInit /\ [][FetchNext]_vars

(***************************************************************************)
(* The facade: one APNs object and the uses of its two accessors.          *)
(***************************************************************************)
MaxAccesses == 3

CertFiles == {"", "cert.pem"}

KeyFiles == {"", "key.pem"}

FacadeInit ==
    /\ ConnInit
    /\ PayloadIdle
    /\ GatewayIdle
    /\ FeedbackIdle
    /\ \E use_sandbox \in BOOLEAN, cert_file \in CertFiles, key_file \in KeyFiles :
           apns = NewAPNs(use_sandbox, cert_file, key_file)
    /\ heap = <<>>
    /\ returned = <<>>
    /\ ReceiveIdle

FeedbackServer ==
    /\ Len(returned) < MaxAccesses
    /\ LET r == feedback_server(apns, heap)
       IN  /\ apns' = r.self
           /\ heap' = r.heap
           /\ returned' = Append(returned, <<"feedback_server", r.result>>)
    /\ UNCHANGED <<connVars, payloadVars, gatewayVars, feedbackVars, receiveVars>>

GatewayServer ==
    /\ Len(returned) < MaxAccesses
    /\ LET r == gateway_server(apns, heap)
       IN  /\ apns' = r.self
           /\ heap' = r.heap
           /\ returned' = Append(returned, <<"gateway_server", r.result>>)
    /\ UNCHANGED <<connVars, payloadVars, gatewayVars, feedbackVars, receiveVars>>

FacadeNext ==
    \/ FeedbackServer
    \/ GatewayServer

SpecFacade == FacadeInit /\ [][FacadeNext]_vars

(***************************************************************************)
(* Properties of the connection life cycle.                                *)
(***************************************************************************)
ReadyCalls(k) == {i \in 1..Len(conn.ready) : conn.ready[i].cb = k}

OpCalls == {conn.ops[i].call : i \in 1..Len(conn.ops)}

RaisedCalls == {conn.raised[i].call : i \in 1..Len(conn.raised)}

\* C1: when the timer of a connect attempt fires before the attempt has
\* completed, the connection is then not alive, not connecting, its socket is
\* closed, and the attempt's onReady is invoked neither then nor later.
C1_TimeoutAbortsAttempt ==
    \A t \in DOMAIN timedOut :
        /\ ~timedOut[t].alive
        /\ ~timedOut[t].connecting
        /\ timedOut[t].socket \in timedOut[t].closed
        /\ ReadyCalls(t) = {}

\* C2: when a connect attempt completes, its timer is no longer pending (and
\* never fires afterwards), and its onReady has run exactly once, seeing the
\* connection already alive and no longer connecting.
C2_ConnectedInOrder ==
    /\ \A k \in completed :
           /\ Cardinality(ReadyCalls(k)) = 1
           /\ k \notin conn.timeouts
    /\ \A i \in 1..Len(conn.ready) :
           /\ conn.ready[i].cb \in completed
           /\ conn.ready[i].alive
           /\ ~conn.ready[i].connecting
           /\ conn.ready[i].cb \notin conn.ready[i].timeouts

\* An attempt completed while its own timer was still pending.
C2_Witness ==
    /\ 1 \in completed
    /\ 1 \notin DOMAIN timedOut
    /\ Len(conn.ready) = 1
    /\ conn.alive

\* C3: every read or write that fails raises ConnectionError from the call,
\* with the connection already not alive and its socket (if any) closed, and
\* the continuation of that call is never registered or invoked.
C3_FailedIOTearsDown ==
    /\ \A i \in 1..Len(conn.raised) :
           conn.raised[i].err = "ConnectionError" =>
               /\ ~conn.raised[i].alive
               /\ conn.raised[i].socket # None =>
                      conn.raised[i].socket \in conn.raised[i].closed
               /\ conn.raised[i].call \notin conn.invoked
               /\ conn.raised[i].call \notin OpCalls
    /\ \A j \in 1..nIO : j \in OpCalls \/ j \in RaisedCalls

\* A call failed on a connection that had been connected, another on one
\* that never was.
C3_Witness ==
    /\ Len(conn.raised) = 2
    /\ conn.raised[1].socket = None
    /\ conn.raised[2].socket # None
    /\ completed # {}

\* C4: in every reachable state _disconnect succeeds without raising, leaves
\* the connection not alive with its socket (if any) closed, and a second
\* _disconnect changes nothing more.
C4_DisconnectIdempotent ==
    LET d == _disconnect(conn)
    IN  /\ d.raised = conn.raised
        /\ ~d.alive
        /\ d.socket # None => d.socket \in d.closed
        /\ _disconnect(d) = d

\* An alive connection has been disconnected, by nothing but _disconnect.
C4_Witness ==
    /\ completed # {}
    /\ timedOut = <<>>
    /\ conn.raised = <<>>
    /\ ~conn.alive
    /\ conn.socket \in conn.closed
    /\ conn = _disconnect(conn)
(***************************************************************************)
(* Properties of Payload.                                                  *)
(***************************************************************************)
BuiltArgs == [ alert |-> built[1].alert, badge |-> built[1].badge,
               sound |-> built[1].sound, custom |-> built[1].custom ]

\* A text of plain letters as the only field serializes to
\* {"aps":{"alert":"..."}}: 20 bytes around the text.
PlainAlertOnly ==
    /\ built[1].alert.kind = "str"
    /\ built[1].alert.text # <<>>
    /\ \A i \in 1..Len(built[1].alert.text) : built[1].alert.text[i] = "x"
    /\ built[1].badge = NoBadge
    /\ built[1].sound = <<>>
    /\ built[1].custom = <<>>

\* C9: Payload(...) succeeds exactly when the serialized JSON is at most 256
\* bytes long, fails with PayloadTooLargeError otherwise, and the object it
\* returns holds the arguments as given (its json() is their serialization).
C9_PayloadSizeCheck ==
    built # <<>> =>
        /\ built[1].result.raises = "" <=> Len(json(BuiltArgs)) <= 256
        /\ built[1].result.raises # "" =>
               built[1].result.raises = "PayloadTooLargeError"
        /\ built[1].result.raises = "" =>
               /\ built[1].result.self = BuiltArgs
               /\ json(built[1].result.self) = json(BuiltArgs)
        /\ PlainAlertOnly =>
               Len(json(BuiltArgs)) = 20 + Len(built[1].alert.text)

\* A payload of exactly 256 serialized bytes was accepted.
C9_Witness ==
    /\ built # <<>>
    /\ built[1].result.raises = ""
    /\ Len(json(built[1].result.self)) = 256
    /\ PlainAlertOnly
(***************************************************************************)
(* Properties of the gateway client.                                       *)
(***************************************************************************)
RaisedFor(call) ==
    {conn.raised[j].err : j \in {k \in 1..Len(conn.raised) : conn.raised[k].call = call}}

WrittenFor(call) ==
    {conn.ops[j].arg : j \in {k \in 1..Len(conn.ops) :
                                 conn.ops[k].call = call /\ conn.ops[k].kind = "write"}}

\* C5: a send_notification or send_notification_json whose hex token has odd
\* length raises TokenLengthOddError from the call; nothing is handed to
\* write, onSent is never invoked and the connection is left as it was.
C5_OddTokenRejected ==
    \A i \in 1..Len(sends) :
        Len(sends[i].token_hex) % 2 = 1 =>
            /\ RaisedFor(sends[i].call) = {"TokenLengthOddError"}
            /\ sends[i].call \notin OpCalls
            /\ sends[i].call \notin conn.invoked
            /\ sends[i].after = sends[i].before

\* An odd-length token was given to send_notification_json on an alive
\* connection.
C5_Witness ==
    \E i \in 1..Len(sends) :
        /\ Len(sends[i].token_hex) = 3
        /\ sends[i].fn = "send_notification_json"
        /\ sends[i].before.alive
        /\ RaisedFor(sends[i].call) = {"TokenLengthOddError"}

IsByte(b) == b \in 0..255

\* The layout of the notification frame for the arguments of send s.
FrameMatches(f, s) ==
    LET tlen == Len(s.token_hex) \div 2
        payload_json == json(args.payload)
        plen == Len(payload_json)
    IN  /\ Len(f) = 1 + 4 + 4 + 2 + tlen + 2 + plen
        /\ \A k \in 1..Len(f) : IsByte(f[k])
        /\ f[1] = 1
        /\ f[2] * 256 + f[3] = args.identifier.hi
        /\ f[4] * 256 + f[5] = args.identifier.lo
        /\ f[6] * 256 + f[7] = args.expiry.hi
        /\ f[8] * 256 + f[9] = args.expiry.lo
        /\ f[10] * 256 + f[11] = tlen
        /\ \A k \in 1..tlen :
               f[11 + k] = 16 * HexValue(s.token_hex[2 * k - 1])
                           + HexValue(s.token_hex[2 * k])
        /\ f[12 + tlen] * 256 + f[13 + tlen] = plen
        /\ SubSeq(f, 14 + tlen, Len(f)) = payload_json
        /\ s.token_hex = <<"a", "1", "b", "2", "c", "3", "d", "4">> =>
               SubSeq(f, 12, 15) = <<161, 178, 195, 212>>

\* C6: for an identifier and expiry in 0..2^32-1 and an even-length hex
\* token, the bytes a send hands to write are command 1, identifier (4 bytes
\* big-endian), expiry (4 bytes big-endian), token length (2 bytes
\* big-endian), the token bytes, payload length (2 bytes big-endian) and the
\* payload bytes, and the send either has them accepted or fails in write.
C6_FrameLayout ==
    \A i \in 1..Len(sends) :
        Len(sends[i].token_hex) % 2 = 0 =>
            /\ \A f \in WrittenFor(sends[i].call) : FrameMatches(f, sends[i])
            /\ \/ WrittenFor(sends[i].call) # {}
               \/ RaisedFor(sends[i].call) = {"ConnectionError"}

\* The frame for identifier 1, expiry 0, token a1b2c3d4 and the payload
\* {"aps":{"alert":"hi"}}.
ExampleFrame ==
    << 1, 0, 0, 0, 1, 0, 0, 0, 0, 0, 4, 161, 178, 195, 212, 0, 22, 123,
       34, 97, 112, 115, 34, 58, 123, 34, 97, 108, 101, 114, 116, 34, 58,
       34, 104, 105, 34, 125, 125 >>

\* That frame was written on a connected stream.
C6_Witness ==
    \E i \in 1..Len(conn.ops) :
        /\ conn.ops[i].kind = "write"
        /\ conn.ops[i].arg = ExampleFrame
        /\ conn.ops[i].stream \in completed
(***************************************************************************)
(* Properties of the feedback sequence.                                    *)
(***************************************************************************)
\* The pairs of the records the server sent, in stream order.
ExpectedPairs ==
    [i \in 1..Len(fb.records) |->
        <<b2a_hex(fb.records[i].token), utcfromtimestamp(fb.records[i].fail_time)>>]

\* C7: for a stream of N records, however it is cut into chunks and whatever
\* the token lengths (0 included), the sequence, once ended, has yielded
\* exactly the N pairs (tokenHex, fail_time) of the records, in stream order.
C7_YieldsEveryRecord ==
    fb.pc = "done" => fb.yielded = ExpectedPairs

ObjectsOf(class) == {o \in 1..Len(heap) : heap[o].class = class}

ReturnedBy(accessor) ==
    {returned[i][2] : i \in {k \in 1..Len(returned) : returned[k][1] = accessor}}

\* A client was built from the facade's own sandbox flag and credentials.
BuiltFromFacade(o, production, sandbox) ==
    /\ heap[o].connection.cert_file = apns.cert_file
    /\ heap[o].connection.key_file = apns.key_file
    /\ heap[o].server = IF apns.use_sandbox THEN sandbox ELSE production

\* C10: a client exists only once its accessor has been used; it is built
\* with the facade's sandbox flag and credentials; every use of an accessor
\* returns the one client of its kind; and the gateway client and the
\* feedback client are two objects, each with connection fields of its own.
C10_AccessorsMemoized ==
    /\ ObjectsOf("GatewayConnection") = ReturnedBy("gateway_server")
    /\ ObjectsOf("FeedbackConnection") = ReturnedBy("feedback_server")
    /\ Cardinality(ObjectsOf("GatewayConnection")) <= 1
    /\ Cardinality(ObjectsOf("FeedbackConnection")) <= 1
    /\ ObjectsOf("GatewayConnection") \cup ObjectsOf("FeedbackConnection")
           = 1..Len(heap)
    /\ ObjectsOf("GatewayConnection") \cap ObjectsOf("FeedbackConnection") = {}
    /\ apns._gateway_connection = None <=> ReturnedBy("gateway_server") = {}
    /\ apns._feedback_connection = None <=> ReturnedBy("feedback_server") = {}
    /\ \A o \in ObjectsOf("GatewayConnection") :
           /\ apns._gateway_connection = o
           /\ BuiltFromFacade(o, "gateway.push.apple.com",
                              "gateway.sandbox.push.apple.com")
    /\ \A o \in ObjectsOf("FeedbackConnection") :
           /\ apns._feedback_connection = o
           /\ BuiltFromFacade(o, "feedback.push.apple.com",
                              "feedback.sandbox.push.apple.com")

\* Both accessors have been used, the gateway one twice, on a sandbox facade.
C10_Witness ==
    /\ apns.use_sandbox
    /\ apns.cert_file = "cert.pem"
    /\ Len(returned) = 3
    /\ returned[1][1] = "gateway_server"
    /\ returned[2][1] = "feedback_server"
    /\ returned[3] = returned[1]
    /\ Len(heap) = 2
(***************************************************************************)
(* Properties of the error channel.                                        *)
(***************************************************************************)
ReadsOf(call) ==
    {i \in 1..Len(conn.ops) : conn.ops[i].call = call /\ conn.ops[i].kind = "read"}

ReceiveCalls == {rx.calls[i] : i \in 1..Len(rx.calls)}

RaisedWith(call, err) ==
    \E i \in 1..Len(conn.raised) :
        conn.raised[i].call = call /\ conn.raised[i].err = err

\* The receive_response calls whose read did not fail, in call order.
Outstanding ==
    SelectSeq(rx.calls, LAMBDA c : ~RaisedWith(c, "ConnectionError"))

\* C11: every receive_response call whose read does not fail issues exactly
\* one read, of 6 bytes; only receive_response calls issue reads; the k-th
\* callback invocation belongs to the k-th such call and carries the status
\* byte and the big-endian identifier of the k-th inbound frame; and no call
\* has its callback invoked twice.
C11_ReceiveResponse ==
    /\ \A c \in ReceiveCalls :
           \/ RaisedWith(c, "ConnectionError")
           \/ /\ Cardinality(ReadsOf(c)) = 1
              /\ \A i \in ReadsOf(c) : conn.ops[i].arg = 6
    /\ \A i \in 1..Len(conn.ops) :
           conn.ops[i].kind = "read" => conn.ops[i].call \in ReceiveCalls
    /\ Len(rx.results) <= Len(Outstanding)
    /\ \A k \in 1..Len(rx.results) :
           /\ k <= Len(Outstanding) => rx.results[k].call = Outstanding[k]
           /\ rx.results[k].status = rx.sent[6 * (k - 1) + 2]
           /\ rx.results[k].identifier
                  = UInt(rx.sent[6 * (k - 1) + 3] * 256 + rx.sent[6 * (k - 1) + 4],
                         rx.sent[6 * (k - 1) + 5] * 256 + rx.sent[6 * (k - 1) + 6])
           /\ \A j \in 1..Len(rx.results) :
                  rx.results[j].call = rx.results[k].call => j = k
(***************************************************************************)
(* Further properties of the connection life cycle.                        *)
(***************************************************************************)
\* C12: whenever the connection becomes alive and no stream is left that
\* could still report a connect, the onReady of every connect call made so
\* far, also of one made while an attempt was in progress, has been invoked
\* exactly once.
C12_EveryConnectCalledBack ==
    [][ (Len(conn'.ready) > Len(conn.ready) /\ conn'.connects = {})
            => \A k \in 1..nConnect : Cardinality(ReadyCalls(k)') = 1 ]_vars
\* C13: the connection is idle, connecting or alive, one at a time: the
\* alive flag and the connecting flag are never both set.
C13_AliveXorConnecting == ~(conn.alive /\ conn.connecting)

\* C14: a connect call made while the connecting flag is set changes nothing
\* of the connection (fields, sockets, streams, timers), and at no time is
\* more than one connect timer pending.
C14_ConnectWhileConnecting ==
    /\ [][ (nConnect' = nConnect + 1 /\ conn.connecting) => conn' = conn ]_vars
    /\ [](Cardinality(conn.timeouts) <= 1)

\* A second connect call was made while the first attempt was in progress.
C14_Witness ==
    /\ nConnect = 2
    /\ conn.connecting
    /\ ~conn.alive
    /\ conn.connects = {1}
    /\ conn.timeouts = {1}
    /\ conn.socket = 1

\* C15: no state has the connecting flag set with no connect timer pending
\* to clear it.
C15_ConnectingHasTimer == conn.connecting => conn.timeouts # {}

\* C15, as progress: with timers that fire, a set connecting flag is
\* eventually cleared.
C15_ConnectingResolves == conn.connecting ~> ~conn.connecting

\* The sockets this connection has opened: one for each attempt made.
Opened == conn.connects \cup completed

\* C19: while the connection is alive its current socket is one whose
\* connect has completed and which the connection has not closed.
C19_AliveSocketConnected ==
    conn.alive => conn.socket \in completed /\ conn.socket \notin conn.closed

\* C20: every socket the connection opened, other than the current one, has
\* been closed, and when the connection is neither alive nor connecting no
\* socket it opened is open.
C20_OneOpenSocket ==
    /\ \A s \in Opened \ {conn.socket} : s \in conn.closed
    /\ (~conn.alive /\ ~conn.connecting) => Opened \subseteq conn.closed
(***************************************************************************)
(* The size of what is sent.                                               *)
(***************************************************************************)
\* The payload_length field of a notification frame.
PayloadLengthOf(f) ==
    LET token_length == f[10] * 256 + f[11]
    IN  f[12 + token_length] * 256 + f[13 + token_length]

\* C16: the payload_length field of every frame handed to write, by
\* send_notification or by send_notification_json, is at most 256.
C16_WrittenPayloadFits ==
    \A i \in 1..Len(conn.ops) :
        conn.ops[i].kind = "write" =>
            PayloadLengthOf(conn.ops[i].arg) <= MAX_PAYLOAD_LENGTH
(***************************************************************************)
(* Further properties of the feedback sequence.                            *)
(***************************************************************************)
\* The pairs whose record has left the buffer: the pair the sequence is
\* suspended on is removed from the buffer when the sequence is resumed.
RemovedPairs ==
    IF fb.pc = "yielded" THEN Len(fb.yielded) - 1 ELSE Len(fb.yielded)

RECURSIVE RecordsLength(_)
\* The bytes of the records of the first n pairs: 6 + token_length each.
RecordsLength(n) ==
    IF n = 0 THEN 0
    ELSE RecordsLength(n - 1) + 6 + (Len(fb.yielded[n][1]) \div 2)

\* The buffer starts with a whole record: header and token.
HoldsCompleteRecord(buff) ==
    /\ Len(buff) >= 6
    /\ Len(buff) >= 6 + unpacked_ushort_big_endian(Slice(buff, 4, 6))

\* C17: the records yielded so far followed by the buffer are the bytes read
\* so far; a pair is yielded only from a buffer that starts with its whole
\* record; and when the parser goes for another chunk the buffer holds no
\* whole record.
C17_ConservesBytes ==
    /\ RecordsLength(RemovedPairs) <= Len(fb.read)
    /\ fb.buff = SliceFrom(fb.read, RecordsLength(RemovedPairs))
    /\ fb.pc = "yielded" =>
           /\ HoldsCompleteRecord(fb.buff)
           /\ fb.yielded[Len(fb.yielded)][1]
                  = b2a_hex(Slice(fb.buff, 6,
                        6 + unpacked_ushort_big_endian(Slice(fb.buff, 4, 6))))
    /\ fb.pc = "fetch" => ~HoldsCompleteRecord(fb.buff)
\* Reads of the chunk size made on the connection and completed.
CompletedChunkReads ==
    {i \in 1..Len(conn.ops) : /\ conn.ops[i].kind = "read"
                              /\ conn.ops[i].arg = BUF_SIZE
                              /\ conn.ops[i].call \in conn.invoked}

\* C18: every chunk the sequence has taken is a completed read of BUF_SIZE
\* on the connection, and a fetch that fails has torn the connection down
\* (not alive, socket closed) and fails with ConnectionError.
C18_FetchIsCompletedRead ==
    /\ fb.reads <= Cardinality(CompletedChunkReads)
    /\ \A j \in 1..Len(conn.raised) :
           conn.raised[j].call # None =>
               /\ conn.raised[j].err = "ConnectionError"
               /\ ~conn.raised[j].alive
               /\ conn.raised[j].socket # None
                      => conn.raised[j].socket \in conn.raised[j].closed
    /\ fb.pc = "raised" => RaisedCalls # {}
====
